---- MODULE Spec2Model ----
(***************************************************************************)
(* Split-and-classify engine of mydocs (src/mydocs/extracting/splitter.py) *)
(* as a state machine: the page batcher, the four-phase overlap merger,    *)
(* the sub-document builder and the idempotency gate of                    *)
(* split_and_classify, together with the document store they read and      *)
(* write.                                                                  *)
(***************************************************************************)
EXTENDS Integers, Sequences, FiniteSets, TLC

(***************************************************************************)
(* Bounds of the model.                                                    *)
(***************************************************************************)
\* pages of the stored document in the split_and_classify state machine
MaxPages == 2
\* largest configured batch_size in the state machine (0 stands for unset)
MaxBatchSize == 1
\* largest configured overlap_factor in the state machine (0 stands for unset)
MaxOverlap == 0
\* segments of one classifier response in the state machine
MaxSegs == 1
\* split_and_classify invocations of one behaviour
MaxCalls == 2
\* pages of the page list handed to the merger, when checked on its own
MergePages == 3
\* segments of all classifier responses of one merge together
MergeSegs == 3
\* largest page number of the page lists handed to the batcher, when checked
\* on its own, and largest batch_size and overlap_factor there
BatchPages == 5
\* largest validation_retries of run_llm_split_classify, when checked on its own
MaxRetries == 4
\* pages of the longer page lists handed to the merger, for which every
\* classifier response divides its window into runs of consecutive pages
WidePages == 5

(***************************************************************************)
(* Program constants.                                                      *)
(***************************************************************************)
\* _build_subdocuments: page numbers, segments of a call, page numbers of a segment
BuildPages == 3
BuildSegs == 2
BuildLen == 2
\* _centrality_score: page numbers of a window
ScorePages == 6

DefaultBatchSize == 12
DefaultOverlapFactor == 3
DefaultValidationRetries == 3

DocTypes == {"invoice", "receipt"}
CaseTypes == {"generic", "receipts"}
FileHashes == {"sha_a", "sha_b"}

(***************************************************************************)
(* Helpers on sequences.                                                   *)
(***************************************************************************)
Max(a, b) == IF a >= b THEN a ELSE b
Min(a, b) == IF a <= b THEN a ELSE b
Abs(a) == IF a >= 0 THEN a ELSE -a
Range(s) == {s[i] : i \in DOMAIN s}

RECURSIVE SetToSortedSeq(_)
\* sorted(...) of a collection of distinct integers
SetToSortedSeq(S) ==
  IF S = {} THEN <<>>
  ELSE LET m == CHOOSE x \in S : \A y \in S : x <= y
       IN <<m>> \o SetToSortedSeq(S \ {m})

RECURSIVE Flatten(_)
Flatten(ss) == IF ss = <<>> THEN <<>> ELSE Head(ss) \o Flatten(Tail(ss))

\* the first index of x in s (list.index), 1-based
IndexOf(s, x) == CHOOSE i \in DOMAIN s : s[i] = x /\ \A j \in 1..(i - 1) : s[j] # x

(***************************************************************************)
(* batch_pages_with_overlap                                                *)
(***************************************************************************)
\* Step with the overlap added instead of subtracted
StepPlusOverlap(batch_size, overlap_factor) == Max(1, batch_size + overlap_factor)

\* step = max(1, batch_size - overlap_factor)
Step(batch_size, overlap_factor) == Max(1, batch_size - overlap_factor)

\* batch = pages[start : start + batch_size]
BatchSlice(pages, start, batch_size) ==
  SubSeq(pages, start + 1, Min(start + batch_size, Len(pages)))

\* LastBatch with > for >=
LastBatchStrict(pages, start, batch_size) == start + batch_size > Len(pages)

\* the break test: start + batch_size >= len(pages)
LastBatch(pages, start, batch_size) == start + batch_size >= Len(pages)

RECURSIVE BatchLoop(_, _, _, _)
\* the for loop over range(0, len(pages), step), from offset start
BatchLoop(pages, batch_size, step, start) ==
  IF start >= Len(pages) THEN <<>>
  ELSE LET batch == BatchSlice(pages, start, batch_size)
       IN IF LastBatch(pages, start, batch_size)
          THEN <<batch>>
          ELSE <<batch>> \o BatchLoop(pages, batch_size, step, start + step)

BatchPagesWithOverlap(pages, batch_size, overlap_factor) ==
  IF pages = <<>> THEN <<>>
  ELSE BatchLoop(pages, batch_size, Step(batch_size, overlap_factor), 0)

(***************************************************************************)
(* _centrality_score: 1 - |idx - mid| / mid with mid = (w - 1) / 2, kept   *)
(* as the exact fraction <<num, den>> = <<(w-1) - |2 idx - (w-1)|, w-1>>;  *)
(* 1.0 is <<1, 1>>.  The quotients of the small integers met here are      *)
(* told apart by the float arithmetic of the source, so the order of the   *)
(* fractions is the order of the floats.                                   *)
(***************************************************************************)
\* CentralityScore with mid = len(page_numbers) / 2.0
CentralityScoreMidOfLen(page_num, batch_pages) ==
  LET page_numbers == SetToSortedSeq(Range(batch_pages))
      w == Len(batch_pages)
  IN IF w <= 1 THEN <<1, 1>>
     ELSE LET idx == IndexOf(page_numbers, page_num) - 1
          IN <<w - Abs(2 * idx - w), w>>

CentralityScore(page_num, batch_pages) ==
  LET page_numbers == SetToSortedSeq(Range(batch_pages))
      w == Len(batch_pages)
  IN IF w <= 1 THEN <<1, 1>>
     ELSE LET idx == IndexOf(page_numbers, page_num) - 1
          IN <<(w - 1) - Abs(2 * idx - (w - 1)), w - 1>>

\* page_numbers.index(page_num) raises ValueError: the page is not in a batch
\* of more than one page
CentralityRaises(page_num, batch_pages) ==
  Len(batch_pages) > 1 /\ page_num \notin Range(batch_pages)

ScoreGT(a, b) == a[1] * b[2] > b[1] * a[2]

(***************************************************************************)
(* combine_overlapping_results, Phase 1: tag pages.                        *)
(***************************************************************************)
PageTag(document_type, batch_idx, segment_idx) ==
  [document_type |-> document_type, batch_idx |-> batch_idx, segment_idx |-> segment_idx]

\* InWindow that lets every page reference pass
InWindowAlways(page_num, batch_pages) == TRUE

\* the test of line 190: page_num in batch_page_sets[batch_idx]
InWindow(page_num, batch_pages) == page_num \in Range(batch_pages)

\* the entries one segment appends to page_tags[page_num]: one per occurrence
\* of page_num in segment.page_numbers, none when the page is not in the batch
SegmentTags(page_num, segment, batch_idx, segment_idx, batch_pages) ==
  IF ~InWindow(page_num, batch_pages) THEN <<>>
  ELSE LET n == Cardinality({i \in DOMAIN segment.page_numbers :
                               segment.page_numbers[i] = page_num})
       IN [k \in 1..n |->
             [tag |-> PageTag(segment.document_type, batch_idx, segment_idx),
              score |-> CentralityScore(page_num, batch_pages)]]

\* page_tags[page_num] after the loops over zip(batch_results, batches)
PageTagsOf(page_num, batch_results, batches) ==
  LET nb == Min(Len(batch_results), Len(batches))
  IN Flatten([b \in 1..nb |->
       Flatten([s \in 1..Len(batch_results[b]) |->
         SegmentTags(page_num, batch_results[b][s], b - 1, s - 1, batches[b])])])

\* the page numbers the zipped batch results name
ReferencedPages(batch_results, batches) ==
  UNION {UNION {Range(batch_results[b][s].page_numbers) :
                  s \in DOMAIN batch_results[b]} :
           b \in 1..Min(Len(batch_results), Len(batches))}

\* Phase 1 raises: a page reference that passes the window test reaches
\* _centrality_score without being a page of the batch
TagRaises(batch_results, batches) ==
  \E b \in 1..Min(Len(batch_results), Len(batches)) :
    \E s \in DOMAIN batch_results[b] :
      \E page_num \in Range(batch_results[b][s].page_numbers) :
        /\ InWindow(page_num, batches[b])
        /\ CentralityRaises(page_num, batches[b])

\* the keys of page_tags
TaggedPages(batch_results, batches) ==
  {p \in ReferencedPages(batch_results, batches) :
     PageTagsOf(p, batch_results, batches) # <<>>}

(***************************************************************************)
(* Phase 2: max(tag_scores, key=score), the first entry of maximal score.  *)
(***************************************************************************)
\* BestTag that takes the last entry of maximal score
BestTagLast(tag_scores) ==
  LET i == CHOOSE i \in DOMAIN tag_scores :
             /\ \A j \in DOMAIN tag_scores : ~ScoreGT(tag_scores[j].score, tag_scores[i].score)
             /\ \A j \in (i + 1)..Len(tag_scores) :
                  ScoreGT(tag_scores[i].score, tag_scores[j].score)
  IN tag_scores[i].tag

BestTag(tag_scores) ==
  LET i == CHOOSE i \in DOMAIN tag_scores :
             /\ \A j \in DOMAIN tag_scores : ~ScoreGT(tag_scores[j].score, tag_scores[i].score)
             /\ \A j \in 1..(i - 1) : ScoreGT(tag_scores[i].score, tag_scores[j].score)
  IN tag_scores[i].tag

SelectedTag(page_num, batch_results, batches) ==
  BestTag(PageTagsOf(page_num, batch_results, batches))

(***************************************************************************)
(* Phase 3: build raw segments, a new one whenever the selected tag        *)
(* changes.  A raw segment is [tag, pages].                                *)
(***************************************************************************)
RECURSIVE BuildLoop(_, _, _, _, _)
BuildLoop(rest, current_tag, current_pages, batch_results, batches) ==
  IF rest = <<>> THEN <<[tag |-> current_tag, pages |-> current_pages]>>
  ELSE LET tag == SelectedTag(Head(rest), batch_results, batches)
       IN IF \/ tag.document_type # current_tag.document_type
             \/ tag.batch_idx # current_tag.batch_idx
             \/ tag.segment_idx # current_tag.segment_idx
          THEN <<[tag |-> current_tag, pages |-> current_pages]>>
               \o BuildLoop(Tail(rest), tag, <<Head(rest)>>, batch_results, batches)
          ELSE BuildLoop(Tail(rest), current_tag, Append(current_pages, Head(rest)),
                         batch_results, batches)

\* RawSegments with the loop started at sorted_pages instead of sorted_pages[1:]
RawSegmentsFromFirst(batch_results, batches) ==
  LET sorted_pages == SetToSortedSeq(TaggedPages(batch_results, batches))
  IN BuildLoop(sorted_pages,
               SelectedTag(Head(sorted_pages), batch_results, batches),
               <<Head(sorted_pages)>>, batch_results, batches)

RawSegments(batch_results, batches) ==
  LET sorted_pages == SetToSortedSeq(TaggedPages(batch_results, batches))
  IN BuildLoop(Tail(sorted_pages),
               SelectedTag(Head(sorted_pages), batch_results, batches),
               <<Head(sorted_pages)>>, batch_results, batches)

(***************************************************************************)
(* Phase 4: cross-batch stitch.                                            *)
(***************************************************************************)
\* ShouldMerge without the comparison of segment_idx
ShouldMergeAnySegment(boundary_page, next_page, batch_results, batches) ==
  LET boundary_tags == PageTagsOf(boundary_page, batch_results, batches)
      next_tags == PageTagsOf(next_page, batch_results, batches)
  IN \E i \in DOMAIN boundary_tags : \E j \in DOMAIN next_tags :
       /\ boundary_tags[i].tag.batch_idx = next_tags[j].tag.batch_idx
       /\ boundary_tags[i].tag.document_type = next_tags[j].tag.document_type

\* ShouldMerge on the selected tags of the boundary pages only
ShouldMergeSelectedOnly(boundary_page, next_page, batch_results, batches) ==
  LET bt == SelectedTag(boundary_page, batch_results, batches)
      nt == SelectedTag(next_page, batch_results, batches)
  IN /\ bt.batch_idx = nt.batch_idx
     /\ bt.segment_idx = nt.segment_idx
     /\ bt.document_type = nt.document_type

\* should_merge: the boundary pages share a tag of one batch segment
ShouldMerge(boundary_page, next_page, batch_results, batches) ==
  LET boundary_tags == PageTagsOf(boundary_page, batch_results, batches)
      next_tags == PageTagsOf(next_page, batch_results, batches)
  IN \E i \in DOMAIN boundary_tags : \E j \in DOMAIN next_tags :
       /\ boundary_tags[i].tag.batch_idx = next_tags[j].tag.batch_idx
       /\ boundary_tags[i].tag.segment_idx = next_tags[j].tag.segment_idx
       /\ boundary_tags[i].tag.document_type = next_tags[j].tag.document_type

RECURSIVE StitchLoopNoTypeTest(_, _, _, _)
\* StitchLoop without the comparison of the document types of the segments
StitchLoopNoTypeTest(merged, rest, batch_results, batches) ==
  IF rest = <<>> THEN merged
  ELSE LET prev == merged[Len(merged)]
           cur == Head(rest)
       IN IF ShouldMerge(prev.pages[Len(prev.pages)], cur.pages[1],
                         batch_results, batches)
          THEN StitchLoopNoTypeTest([merged EXCEPT ![Len(merged)] =
                                       [tag |-> prev.tag, pages |-> prev.pages \o cur.pages]],
                                    Tail(rest), batch_results, batches)
          ELSE StitchLoopNoTypeTest(Append(merged, cur), Tail(rest), batch_results, batches)

RECURSIVE StitchLoop(_, _, _, _)
StitchLoop(merged, rest, batch_results, batches) ==
  IF rest = <<>> THEN merged
  ELSE LET prev == merged[Len(merged)]
           cur == Head(rest)
       IN IF cur.tag.document_type # prev.tag.document_type
          THEN StitchLoop(Append(merged, cur), Tail(rest), batch_results, batches)
          ELSE IF ShouldMerge(prev.pages[Len(prev.pages)], cur.pages[1],
                              batch_results, batches)
               THEN StitchLoop([merged EXCEPT ![Len(merged)] =
                                  [tag |-> prev.tag, pages |-> prev.pages \o cur.pages]],
                               Tail(rest), batch_results, batches)
               ELSE StitchLoop(Append(merged, cur), Tail(rest), batch_results, batches)

SplitSegment(document_type, page_numbers) ==
  [document_type |-> document_type, page_numbers |-> page_numbers]

CombineOverlappingResults(batch_results, batches) ==
  IF batch_results = <<>> THEN <<>>
  ELSE IF TaggedPages(batch_results, batches) = {} THEN <<>>
  ELSE LET raw_segments == RawSegments(batch_results, batches)
           merged == StitchLoop(<<raw_segments[1]>>, Tail(raw_segments),
                                batch_results, batches)
       IN [i \in DOMAIN merged |->
             SplitSegment(merged[i].tag.document_type, merged[i].pages)]

(***************************************************************************)
(* _build_subdocuments.  The document id is fixed (one document); a page   *)
(* of the page store is known by its page number, its id is <<"page", n>>, *)
(* and a sub-document id is the list generate_composite_id hashes.         *)
(* created_at is left out.                                                 *)
(***************************************************************************)
PageId(n) == <<"page", n>>

SubDocumentPageRef(pn) == [page_id |-> PageId(pn), page_number |-> pn]

MinOf(S) == CHOOSE x \in S : \A y \in S : x <= y

\* SubDocId without the minimum page number
SubDocIdNoPage(case_type, document_type, min_page) == <<"doc", case_type, document_type>>

\* generate_composite_id([document_id, case_type, document_type, str(min_page)])
SubDocId(case_type, document_type, min_page) == <<"doc", case_type, document_type, min_page>>

\* PageRefs without the lookup: a reference for every page number
PageRefsUnresolved(page_numbers, pages) ==
  [i \in DOMAIN page_numbers |-> SubDocumentPageRef(page_numbers[i])]

\* page_refs of one segment: the page numbers that resolve to a page, in order
PageRefs(page_numbers, pages) ==
  LET keep == SelectSeq(page_numbers, LAMBDA pn : pn \in Range(pages))
  IN [i \in DOMAIN keep |-> SubDocumentPageRef(keep[i])]

RECURSIVE BuildSubdocuments(_, _, _)
BuildSubdocuments(case_type, segments, pages) ==
  IF segments = <<>> THEN <<>>
  ELSE LET segment == Head(segments)
           page_refs == PageRefs(segment.page_numbers, pages)
           rest == BuildSubdocuments(case_type, Tail(segments), pages)
       IN IF page_refs = <<>> THEN rest
          ELSE <<[id |-> SubDocId(case_type, segment.document_type,
                                  MinOf({page_refs[i].page_number : i \in DOMAIN page_refs})),
                  case_type |-> case_type,
                  document_type |-> segment.document_type,
                  page_refs |-> page_refs]>> \o rest

(***************************************************************************)
(* State.                                                                  *)
(*   db        the persisted Document: exists, file_sha (its               *)
(*             file_metadata.sha256), subdocuments (<<>> also for None),   *)
(*             meta (split_classify_meta, NoMeta for None), locked, status *)
(*   page_db   the page numbers of the persisted DocumentPages             *)
(*   del_pc    the position of a delete_document request                   *)
(*   inv       per task, one split_and_classify invocation: its position,  *)
(*             arguments and locals, and what it has done so far (told:    *)
(*             the arguments of the classifier calls that returned a       *)
(*             result; fetches, saves: the store accesses made; replaced:  *)
(*             the persisted document its save has written over)           *)
(*   last      the previous invocation, when it returned sub-documents and *)
(*             no other writer has acted since: its case_type, the         *)
(*             segments and the sub-document ids it returned, whether it   *)
(*             reclassified, and, when it was made with force=False (ok),  *)
(*             its prompt_config                                           *)
(*   ncalls    invocations returned so far                                 *)
(*   m_pc, m_batches, m_results, m_out: one call of                        *)
(*   combine_overlapping_results: its arguments and its return value.      *)
(*   b_pc, b_pages, b_batch_size, b_overlap_factor, b_start, b_batches:    *)
(*   one call of batch_pages_with_overlap: its arguments, the loop         *)
(*   variable start and the list batches.                                  *)
(*   b_prompt_config: the prompt config the two arguments are taken from.  *)
(*   sd_pc, sd_case_type, sd_segments, sd_pages, sd_out: one call of       *)
(*   _build_subdocuments: its arguments (pages by page number) and its     *)
(*   return value.                                                         *)
(*   cs_pc, cs_page_num, cs_batch_pages, cs_score: one call of             *)
(*   _centrality_score: its arguments and its return value.                *)
(*   par       per parser task, one use of DocumentParser as a context     *)
(*             manager on the document: its position, self.document and    *)
(*             whether the body of the with-block raised                   *)
(*   r_pc, r_retries, r_history, r_last_error, r_raised: one call of       *)
(*   run_llm_split_classify: its position, prompt_config.validation_retries,*)
(*   the outcomes of the litellm.acompletion calls made so far, the local  *)
(*   last_error and the exception the call has raised.                     *)
(***************************************************************************)
VARIABLES db, page_db, del_pc, inv, last, ncalls, par,
          m_pc, m_batches, m_results, m_out,
          b_pc, b_prompt_config, b_pages, b_batch_size, b_overlap_factor, b_start,
          b_batches,
          r_pc, r_retries, r_history, r_last_error, r_raised,
          sd_pc, sd_case_type, sd_segments, sd_pages, sd_out,
          cs_pc, cs_page_num, cs_batch_pages, cs_score

vars == <<db, page_db, del_pc, inv, last, ncalls, par, m_pc, m_batches, m_results, m_out,
          b_pc, b_prompt_config, b_pages, b_batch_size, b_overlap_factor, b_start,
          b_batches, r_pc, r_retries, r_history, r_last_error, r_raised,
          sd_pc, sd_case_type, sd_segments, sd_pages, sd_out,
          cs_pc, cs_page_num, cs_batch_pages, cs_score>>
storeVars == <<db, page_db, del_pc, inv, last, ncalls>>
mergeVars == <<m_pc, m_batches, m_results, m_out>>
batchVars == <<b_pc, b_prompt_config, b_pages, b_batch_size, b_overlap_factor, b_start,
               b_batches>>
llmVars == <<r_pc, r_retries, r_history, r_last_error, r_raised>>
buildVars == <<sd_pc, sd_case_type, sd_segments, sd_pages, sd_out>>
scoreVars == <<cs_pc, cs_page_num, cs_batch_pages, cs_score>>
otherVars == <<buildVars, scoreVars, par>>
pureVars == <<mergeVars, batchVars, llmVars, otherVars>>

Procs == {1}

NoMeta == [file_sha256 |-> "none", config_hash |-> <<>>, case_type |-> "none"]

\* SplitClassifyMeta(file_sha256, config_hash, case_type); completed_at left out
SplitClassifyMeta(file_sha256, config_hash, case_type) ==
  [file_sha256 |-> file_sha256, config_hash |-> config_hash, case_type |-> case_type]

\* batch_size: Optional[int] = None, overlap_factor: Optional[int] = None
None == -1

\* the prompt configs of the callers: batch_size and overlap_factor 0 stand
\* for unset (None and 0 are both falsy)
PromptConfigs ==
  [batch_size : 0..MaxBatchSize, overlap_factor : 0..MaxOverlap,
   validation_retries : {DefaultValidationRetries}]

\* calculate_content_hash(json.dumps(prompt_config.model_dump(), sort_keys=True)):
\* the dump itself stands for its SHA-256
ConfigHash(prompt_config) ==
  <<prompt_config.batch_size, prompt_config.overlap_factor, prompt_config.validation_retries>>

\* batch_size = prompt_config.batch_size or 12
BatchSizeOf(prompt_config) ==
  IF prompt_config.batch_size \in {None, 0} THEN DefaultBatchSize
  ELSE prompt_config.batch_size

\* overlap_factor = prompt_config.overlap_factor or 3
OverlapFactorOf(prompt_config) ==
  IF prompt_config.overlap_factor \in {None, 0} THEN DefaultOverlapFactor
  ELSE prompt_config.overlap_factor

\* Document(...) as ingest_files makes it: status = NEW, locked = False
NewDocument(sha) ==
  [exists |-> TRUE, file_sha |-> sha, subdocuments |-> <<>>, meta |-> NoMeta,
   locked |-> FALSE, status |-> "new"]

NoDoc == [NewDocument("none") EXCEPT !.exists = FALSE]

EmptyResult == [segments |-> <<>>, subdocuments |-> <<>>]

IdleInv ==
  [pc |-> "idle", prompt_config |-> [batch_size |-> 0, overlap_factor |-> 0,
                                     validation_retries |-> DefaultValidationRetries],
   case_type |-> "none", force |-> FALSE,
   loaded |-> NoDoc, doc |-> NoDoc, pages |-> <<>>, batches |-> <<>>,
   batch_results |-> <<>>, told |-> <<>>, attempt |-> 0, llm_calls |-> 0,
   fetches |-> 0, saves |-> 0, replaced |-> NoDoc, result |-> EmptyResult,
   outcome |-> "none"]

\* the ids of a list of sub-documents, in order
SubDocIds(subdocuments) == [k \in DOMAIN subdocuments |-> subdocuments[k].id]

\* no previous invocation to compare with
NoLast ==
  [ok |-> FALSE, reclassified |-> FALSE,
   prompt_config |-> IdleInv.prompt_config, case_type |-> "none",
   segments |-> <<>>, ids |-> <<>>]

\* file_sha256 = doc.file_metadata.sha256 if doc.file_metadata else ""
FileSha256(doc) == IF doc.file_sha = "none" THEN "" ELSE doc.file_sha

\* CacheHit without the comparison of case_type
CacheHitAnyCaseType(doc, prompt_config, case_type, force) ==
  /\ ~force
  /\ doc.subdocuments # <<>>
  /\ doc.meta # NoMeta
  /\ doc.meta.file_sha256 = FileSha256(doc)
  /\ doc.meta.config_hash = ConfigHash(prompt_config)

\* CacheHit without the test that the document has sub-documents
CacheHitNoSubdocuments(doc, prompt_config, case_type, force) ==
  /\ ~force
  /\ doc.meta # NoMeta
  /\ doc.meta.file_sha256 = FileSha256(doc)
  /\ doc.meta.config_hash = ConfigHash(prompt_config)
  /\ doc.meta.case_type = case_type

\* CacheHit without the test of force
CacheHitForced(doc, prompt_config, case_type, force) ==
  /\ doc.subdocuments # <<>>
  /\ doc.meta # NoMeta
  /\ doc.meta.file_sha256 = FileSha256(doc)
  /\ doc.meta.config_hash = ConfigHash(prompt_config)
  /\ doc.meta.case_type = case_type

\* the idempotency check
CacheHit(doc, prompt_config, case_type, force) ==
  /\ ~force
  /\ doc.subdocuments # <<>>
  /\ doc.meta # NoMeta
  /\ doc.meta.file_sha256 = FileSha256(doc)
  /\ doc.meta.config_hash = ConfigHash(prompt_config)
  /\ doc.meta.case_type = case_type

\* the result view rebuilt from the persisted sub-documents
CachedSegments(subdocuments) ==
  [i \in DOMAIN subdocuments |->
     SplitSegment(subdocuments[i].document_type,
                  SetToSortedSeq({subdocuments[i].page_refs[j].page_number :
                                    j \in DOMAIN subdocuments[i].page_refs}))]

\* CachedResult with the segments only (subdocuments left to its default [])
CachedResultSegmentsOnly(doc) ==
  [segments |-> CachedSegments(doc.subdocuments), subdocuments |-> <<>>]

\* SplitClassifyResult(segments=segments, subdocuments=doc.subdocuments)
CachedResult(doc) ==
  [segments |-> CachedSegments(doc.subdocuments), subdocuments |-> doc.subdocuments]

\* NoPages that never holds
NoPagesNever(pages) == FALSE

\* if not pages
NoPages(pages) == pages = <<>>

\* AssignResult appending to the sub-documents already on the document
AssignResultAppend(doc, subdocuments, meta) ==
  [doc EXCEPT !.subdocuments = doc.subdocuments \o subdocuments, !.meta = meta]

\* doc.subdocuments = subdocuments; doc.split_classify_meta = SplitClassifyMeta(...)
AssignResult(doc, subdocuments, meta) ==
  [doc EXCEPT !.subdocuments = subdocuments, !.meta = meta]

(***************************************************************************)
(* The arguments of one combine_overlapping_results call.  The windows are *)
(* the batches batch_pages_with_overlap makes of pages 1..n.  A response   *)
(* of the classifier for a window is a list of segments; a segment names a *)
(* document type and an ascending list of pages among the window's pages   *)
(* and the page just past the window (a reference outside the window).     *)
(***************************************************************************)
SeqsUpTo(S, k) == UNION {[1..i -> S] : i \in 0..k}

SegmentsFor(window) ==
  {SplitSegment(t, SetToSortedSeq(S)) :
     t \in DocTypes, S \in SUBSET (Range(window) \cup {window[Len(window)] + 1})}

RECURSIVE ResultLists(_, _)
\* the lists of batch results, one per window, of at most k segments together
ResultLists(batches, k) ==
  IF batches = <<>> THEN {<<>>}
  ELSE UNION {{<<r>> \o rest : rest \in ResultLists(Tail(batches), k - Len(r))} :
                r \in SeqsUpTo(SegmentsFor(Head(batches)), k)}

MergeWindows ==
  {BatchPagesWithOverlap([i \in 1..n |-> i], bs, ov) :
     n \in 0..MergePages, bs \in 1..MergePages, ov \in 0..MergePages}

RECURSIVE Runs(_)
\* the responses that divide a window into typed runs of consecutive pages
Runs(window) ==
  IF window = <<>> THEN {<<>>}
  ELSE UNION {{<<SplitSegment(t, SubSeq(window, 1, k))>> \o rest :
                 rest \in Runs(SubSeq(window, k + 1, Len(window)))} :
                t \in DocTypes, k \in 1..Len(window)}

RECURSIVE RunLists(_)
\* one such response per window
RunLists(batches) ==
  IF batches = <<>> THEN {<<>>}
  ELSE {<<r>> \o rest : r \in Runs(Head(batches)), rest \in RunLists(Tail(batches))}

WideWindows ==
  {BatchPagesWithOverlap([i \in 1..WidePages |-> i], bs, ov) :
     bs \in 1..WidePages, ov \in 0..WidePages}

\* the windows [1..5], [4..8] of eight pages, and the responses
\* A = receipt[1,2,3], receipt[4,5] and B = receipt[4,5], invoice[6,7,8]
ExampleBatches == BatchPagesWithOverlap([i \in 1..8 |-> i], 5, 2)

ExampleResults ==
  <<<<SplitSegment("receipt", <<1, 2, 3>>), SplitSegment("receipt", <<4, 5>>)>>,
    <<SplitSegment("receipt", <<4, 5>>), SplitSegment("invoice", <<6, 7, 8>>)>>>>

MergeOff ==
  /\ m_pc = "off"
  /\ m_batches = <<>>
  /\ m_results = <<>>
  /\ m_out = <<>>

BatchOff ==
  /\ b_pc = "off"
  /\ b_prompt_config = IdleInv.prompt_config
  /\ b_pages = <<>>
  /\ b_batch_size = 1
  /\ b_overlap_factor = 0
  /\ b_start = 0
  /\ b_batches = <<>>

\* last_error = None
NoError == [kind |-> "none", attempt |-> 0]

LlmOff ==
  /\ r_pc = "off"
  /\ r_retries = 0
  /\ r_history = <<>>
  /\ r_last_error = NoError
  /\ r_raised = NoError

BuildOff ==
  /\ sd_pc = "off"
  /\ sd_case_type = "none"
  /\ sd_segments = <<>>
  /\ sd_pages = <<>>
  /\ sd_out = <<>>

ScoreOff ==
  /\ cs_pc = "off"
  /\ cs_page_num = 0
  /\ cs_batch_pages = <<>>
  /\ cs_score = <<0, 1>>

\* no parser task
ParOff == par = <<>>

OtherOff == BuildOff /\ ScoreOff /\ ParOff

StoreIdle ==
  /\ db = NoDoc
  /\ page_db = {}
  /\ del_pc = "idle"
  /\ inv = [p \in Procs |-> IdleInv]
  /\ last = NoLast
  /\ ncalls = 0

MergeInit ==
  /\ StoreIdle
  /\ BatchOff
  /\ LlmOff
  /\ OtherOff
  /\ m_pc = "input"
  /\ \/ /\ m_batches \in MergeWindows
        /\ m_results \in ResultLists(m_batches, MergeSegs)
     \/ /\ m_batches \in WideWindows
        /\ m_results \in RunLists(m_batches)
     \/ /\ m_batches = ExampleBatches
        /\ m_results = ExampleResults
  /\ m_out = <<>>

\* the call: segments = combine_overlapping_results(batch_results, batches)
Combine ==
  /\ m_pc = "input"
  /\ IF m_results # <<>> /\ TagRaises(m_results, m_batches)
     THEN m_out' = <<>> /\ m_pc' = "raised"
     ELSE /\ m_out' = CombineOverlappingResults(m_results, m_batches)
          /\ m_pc' = "merged"
  /\ UNCHANGED <<m_batches, m_results>>
  /\ UNCHANGED <<storeVars, batchVars, llmVars, otherVars>>

MergeNext == Combine

SpecMerge == MergeInit /\ [][MergeNext]_vars

(***************************************************************************)
(* One call of batch_pages_with_overlap, an action per iteration of its    *)
(* loop.  The page lists are the ascending lists of page numbers of        *)
(* 1..BatchPages.                                                          *)
(***************************************************************************)
SortedPageLists == {SetToSortedSeq(S) : S \in SUBSET (1..BatchPages)}

BatchInit ==
  /\ StoreIdle
  /\ MergeOff
  /\ LlmOff
  /\ OtherOff
  /\ b_pc = "call"
  /\ b_prompt_config = IdleInv.prompt_config
  /\ b_pages \in SortedPageLists
  /\ b_batch_size \in 1..BatchPages
  /\ b_overlap_factor \in 0..BatchPages
  /\ b_start = 0
  /\ b_batches = <<>>

\* if not pages: return []; batches = []; the loop starts at range's first value
BatchEnter ==
  /\ b_pc = "call"
  /\ b_pc' = IF b_pages = <<>> THEN "done" ELSE "loop"
  /\ UNCHANGED <<b_prompt_config, b_pages, b_batch_size, b_overlap_factor, b_start, b_batches>>
  /\ UNCHANGED <<storeVars, mergeVars, llmVars, otherVars>>

\* one iteration: slice, append, break; else range's next value, and the
\* loop ends when range(0, len(pages), step) has no further value
BatchIter ==
  /\ b_pc = "loop"
  /\ b_batches' = Append(b_batches, BatchSlice(b_pages, b_start, b_batch_size))
  /\ LET next_start == b_start + Step(b_batch_size, b_overlap_factor)
     IN IF LastBatch(b_pages, b_start, b_batch_size)
        THEN b_pc' = "done" /\ b_start' = b_start
        ELSE /\ b_start' = next_start
             /\ b_pc' = IF next_start >= Len(b_pages) THEN "done" ELSE "loop"
  /\ UNCHANGED <<b_prompt_config, b_pages, b_batch_size, b_overlap_factor>>
  /\ UNCHANGED <<storeVars, mergeVars, llmVars, otherVars>>

BatchNext == BatchEnter \/ BatchIter

SpecBatch == BatchInit /\ [][BatchNext]_vars

\* the call runs on: nothing suspends it
SpecBatchFair == SpecBatch /\ WF_vars(BatchNext)

(***************************************************************************)
(* One call of run_llm_split_classify, an action per outcome of the await  *)
(* of litellm.acompletion.  An exception is known by its kind and by the   *)
(* attempt (from 1) that raised it:                                        *)
(*   "api_error"   an instance of litellm.exceptions.APIError;             *)
(*   "validation"  model_validate_json rejects the content;                *)
(*   "timeout"     a transport-level error of the call that is no         *)
(*                 APIError, such as litellm.exceptions.Timeout;           *)
(*   "type_error"  the TypeError of raise None.                            *)
(***************************************************************************)
Error(kind, attempt) == [kind |-> kind, attempt |-> attempt]

LlmCallInit ==
  /\ StoreIdle
  /\ MergeOff
  /\ BatchOff
  /\ OtherOff
  /\ r_pc = "call"
  /\ r_retries \in 0..MaxRetries
  /\ r_history = <<>>
  /\ r_last_error = NoError
  /\ r_raised = NoError

\* last_error = None, and the loop is entered; with an empty range the code
\* reaches raise last_error at once
RunEnter ==
  /\ r_pc = "call"
  /\ IF r_retries = 0
     THEN r_pc' = "raised" /\ r_raised' = Error("type_error", 0)
     ELSE r_pc' = "await" /\ r_raised' = r_raised
  /\ UNCHANGED <<r_retries, r_history, r_last_error>>
  /\ UNCHANGED <<storeVars, mergeVars, batchVars, otherVars>>

\* the response validates: return
AcompletionValid ==
  /\ r_pc = "await"
  /\ r_history' = Append(r_history, "valid")
  /\ r_pc' = "returned"
  /\ UNCHANGED <<r_retries, r_last_error, r_raised>>
  /\ UNCHANGED <<storeVars, mergeVars, batchVars, otherVars>>

\* except litellm.exceptions.APIError: raise
AcompletionAPIError ==
  /\ r_pc = "await"
  /\ r_history' = Append(r_history, "api_error")
  /\ r_pc' = "raised"
  /\ r_raised' = Error("api_error", Len(r_history) + 1)
  /\ UNCHANGED <<r_retries, r_last_error>>
  /\ UNCHANGED <<storeVars, mergeVars, batchVars, otherVars>>

\* AfterCaught with one attempt more than validation_retries
AfterCaughtOneMore(caught, attempts, retries, last_error) ==
  IF attempts > retries
  THEN [pc |-> "raised", last_error |-> caught, raised |-> caught]
  ELSE [pc |-> "await", last_error |-> caught, raised |-> NoError]

\* except Exception as e: last_error = e; the next attempt, or after the
\* last one raise last_error.  attempts counts the attempts made, this one
\* included.
AfterCaught(caught, attempts, retries, last_error) ==
  IF attempts >= retries
  THEN [pc |-> "raised", last_error |-> caught, raised |-> caught]
  ELSE [pc |-> "await", last_error |-> caught, raised |-> NoError]

\* the call or the validation raises an Exception that is no APIError
Caught(kind) ==
  /\ r_pc = "await"
  /\ r_history' = Append(r_history, kind)
  /\ LET after == AfterCaught(Error(kind, Len(r_history) + 1), Len(r_history) + 1,
                              r_retries, r_last_error)
     IN /\ r_pc' = after.pc
        /\ r_last_error' = after.last_error
        /\ r_raised' = after.raised
  /\ UNCHANGED r_retries
  /\ UNCHANGED <<storeVars, mergeVars, batchVars, otherVars>>

\* model_validate_json rejects the content
AcompletionInvalid == Caught("validation")

\* litellm.acompletion raises a transport-level exception that is no APIError
AcompletionTimeout == Caught("timeout")

LlmCallNext ==
  \/ RunEnter
  \/ AcompletionValid
  \/ AcompletionAPIError
  \/ AcompletionInvalid
  \/ AcompletionTimeout

SpecLlm == LlmCallInit /\ [][LlmCallNext]_vars

(***************************************************************************)
(* One call of _build_subdocuments.  The pages are the ascending lists of  *)
(* page numbers of 1..BuildPages; a segment names a document type and a   *)
(* list of at most BuildLen page numbers of 1..BuildPages, in any order,   *)
(* whether or not the pages exist.                                         *)
(***************************************************************************)
BuildInit ==
  /\ StoreIdle
  /\ MergeOff
  /\ BatchOff
  /\ LlmOff
  /\ ScoreOff
  /\ ParOff
  /\ sd_pc = "call"
  /\ sd_case_type \in CaseTypes
  /\ sd_pages \in {SetToSortedSeq(S) : S \in SUBSET (1..BuildPages)}
  /\ sd_segments \in
       SeqsUpTo({SplitSegment(t, pn) :
                   t \in DocTypes, pn \in SeqsUpTo(1..BuildPages, BuildLen)},
                BuildSegs)
  /\ sd_out = <<>>

\* subdocuments = await _build_subdocuments(document_id, case_type, segments, pages)
Build ==
  /\ sd_pc = "call"
  /\ sd_out' = BuildSubdocuments(sd_case_type, sd_segments, sd_pages)
  /\ sd_pc' = "built"
  /\ UNCHANGED <<sd_case_type, sd_segments, sd_pages>>
  /\ UNCHANGED <<storeVars, mergeVars, batchVars, llmVars, scoreVars, par>>

BuildNext == Build

SpecBuild == BuildInit /\ [][BuildNext]_vars

(***************************************************************************)
(* One call of _centrality_score.  The windows are the ascending lists of  *)
(* page numbers of 1..ScorePages.                                          *)
(***************************************************************************)
ScoreInit ==
  /\ StoreIdle
  /\ MergeOff
  /\ BatchOff
  /\ LlmOff
  /\ BuildOff
  /\ ParOff
  /\ cs_pc = "call"
  /\ cs_batch_pages \in {SetToSortedSeq(S) : S \in SUBSET (1..ScorePages)}
  /\ cs_page_num \in 1..ScorePages
  /\ cs_score = <<0, 1>>

\* _centrality_score(page_num, batch_pages)
Score ==
  /\ cs_pc = "call"
  /\ IF CentralityRaises(cs_page_num, cs_batch_pages)
     THEN cs_pc' = "raised" /\ cs_score' = cs_score
     ELSE /\ cs_pc' = "returned"
          /\ cs_score' = CentralityScore(cs_page_num, cs_batch_pages)
  /\ UNCHANGED <<cs_page_num, cs_batch_pages>>
  /\ UNCHANGED <<storeVars, mergeVars, batchVars, llmVars, buildVars, par>>

ScoreNext == Score

SpecScore == ScoreInit /\ [][ScoreNext]_vars

(***************************************************************************)
(* The batching of split_and_classify: the two parameters are taken from   *)
(* the prompt config, then batch_pages_with_overlap is called.  A prompt   *)
(* config has batch_size and overlap_factor unset (None) or set to a       *)
(* number from 0 to BatchPages.                                            *)
(***************************************************************************)
PlanConfigs ==
  [batch_size : {None} \cup (0..BatchPages),
   overlap_factor : {None} \cup (0..BatchPages),
   validation_retries : {DefaultValidationRetries}]

PlanInit ==
  /\ StoreIdle
  /\ MergeOff
  /\ LlmOff
  /\ OtherOff
  /\ b_pc = "plan"
  /\ b_prompt_config \in PlanConfigs
  /\ b_pages \in SortedPageLists \ {<<>>}
  /\ b_batch_size = 1
  /\ b_overlap_factor = 0
  /\ b_start = 0
  /\ b_batches = <<>>

\* batch_size = prompt_config.batch_size or 12;
\* overlap_factor = prompt_config.overlap_factor or 3;
\* batches = batch_pages_with_overlap(pages, batch_size, overlap_factor)
PlanBatches ==
  /\ b_pc = "plan"
  /\ b_batch_size' = BatchSizeOf(b_prompt_config)
  /\ b_overlap_factor' = OverlapFactorOf(b_prompt_config)
  /\ b_pc' = "call"
  /\ UNCHANGED <<b_prompt_config, b_pages, b_start, b_batches>>
  /\ UNCHANGED <<storeVars, mergeVars, llmVars, otherVars>>

PlanNext == PlanBatches \/ BatchNext

SpecPlan == PlanInit /\ [][PlanNext]_vars

(***************************************************************************)
(* The split_and_classify state machine.  One step is the code between two *)
(* awaits: Document.aget, DocumentPage.afind, each litellm.acompletion     *)
(* and doc.asave are the suspension points.                                *)
(***************************************************************************)
\* the responses of the classifier that pass schema validation, for one batch
ClassifierResults(batch) == SeqsUpTo(SegmentsFor(batch), MaxSegs)

\* more than one task works on the document
Concurrent == Cardinality(DOMAIN inv) + Len(par) > 1

\* the responses taken: with concurrent tasks, only those that give the
\* whole batch as one typed run
Responses(batch) ==
  IF Concurrent THEN ClassifierResults(batch) \cap Runs(batch)
  ELSE ClassifierResults(batch)

Init ==
  /\ \E sha \in FileHashes, n \in 0..MaxPages :
       \/ db = NoDoc /\ page_db = {}
       \/ /\ db = NewDocument(sha)
          /\ page_db = 1..n
  /\ del_pc = "idle"
  /\ inv = [p \in Procs |-> IdleInv]
  /\ last = NoLast
  /\ ncalls = 0
  /\ MergeOff
  /\ BatchOff
  /\ LlmOff
  /\ OtherOff

Finish(i, outcome, result) ==
  [i EXCEPT !.pc = "done", !.outcome = outcome, !.result = result]

Raise(i, outcome) == [i EXCEPT !.pc = "failed", !.outcome = outcome]

\* doc = await Document.aget(document_id), then the code up to the next await:
\* the not-found return, the hashes and the idempotency check
Load(p) ==
  /\ inv[p].pc = "idle"
  /\ ncalls < MaxCalls
  /\ \E prompt_config \in PromptConfigs, case_type \in CaseTypes, force \in BOOLEAN :
       LET i == [IdleInv EXCEPT !.prompt_config = prompt_config,
                                !.case_type = case_type, !.force = force,
                                !.loaded = db, !.doc = db]
       IN inv' = [inv EXCEPT ![p] =
            IF ~db.exists THEN Finish(i, "not_found", EmptyResult)
            ELSE IF CacheHit(db, prompt_config, case_type, force)
                 THEN Finish(i, "cached", CachedResult(db))
                 ELSE [i EXCEPT !.pc = "fetch"]]
  /\ UNCHANGED <<db, page_db, del_pc, last, ncalls>>
  /\ UNCHANGED pureVars

\* StoreAfterBatchFailure keeping the merge of the batches classified so far
StoreAfterBatchFailurePartial(p) ==
  [db EXCEPT !.subdocuments =
     BuildSubdocuments(inv[p].case_type,
       CombineOverlappingResults(inv[p].batch_results,
                                 SubSeq(inv[p].batches, 1, Len(inv[p].batch_results))),
       inv[p].pages)]

\* the document store after a batch has raised: nothing was written
StoreAfterBatchFailure(p) == db

\* after the last batch: merge, build the sub-documents, assign them and the
\* run metadata to the loaded document; the next await is doc.asave()
AfterLastBatch(i, batch_results) ==
  LET segments == CombineOverlappingResults(batch_results, i.batches)
      subdocuments == BuildSubdocuments(i.case_type, segments, i.pages)
  IN [i EXCEPT !.pc = "save",
               !.batch_results = batch_results,
               !.result = [segments |-> segments, subdocuments |-> subdocuments],
               !.doc = AssignResult(i.doc, subdocuments,
                         SplitClassifyMeta(FileSha256(i.doc),
                                           ConfigHash(i.prompt_config), i.case_type))]

\* the batch the classify loop is at: batches[batch_index], batch_index from 0
LoopBatch(i) == i.batches[Len(i.batch_results) + 1]

\* BatchNum counting from 0
BatchNumFromZero(i) == Len(i.batch_results)

\* for batch_num, batch in enumerate(batches, start=1)
BatchNum(i) == Len(i.batch_results) + 1

\* the arguments of run_llm_split_classify for the batch the loop is at:
\* the context generated from the batch, batch_num and total_batches
CallArgs(i) ==
  [batch |-> LoopBatch(i), batch_num |-> BatchNum(i), total_batches |-> Len(i.batches)]

\* pages = await DocumentPage.afind(...), sorted; the no-pages return;
\* batching.  With no batch the classify loop runs zero times.
FetchPages(p) ==
  /\ inv[p].pc = "fetch"
  /\ LET pages == SetToSortedSeq(page_db)
         batches == BatchPagesWithOverlap(pages, BatchSizeOf(inv[p].prompt_config),
                                          OverlapFactorOf(inv[p].prompt_config))
         i == [inv[p] EXCEPT !.pages = pages, !.batches = batches, !.fetches = @ + 1]
     IN inv' = [inv EXCEPT ![p] =
          IF NoPages(pages)
          THEN Finish([inv[p] EXCEPT !.fetches = @ + 1], "no_pages", EmptyResult)
          ELSE IF batches = <<>> THEN AfterLastBatch(i, <<>>)
          ELSE [i EXCEPT !.pc = "classify"]]
  /\ UNCHANGED <<db, page_db, del_pc, last, ncalls>>
  /\ UNCHANGED pureVars

\* litellm.acompletion returns content that validates
LlmReturn(p) ==
  /\ inv[p].pc = "classify"
  /\ inv[p].attempt < inv[p].prompt_config.validation_retries
  /\ \E r \in Responses(LoopBatch(inv[p])) :
       LET i == [inv[p] EXCEPT !.llm_calls = @ + 1, !.attempt = 0,
                               !.told = Append(@, CallArgs(inv[p]))]
           batch_results == Append(i.batch_results, r)
       IN inv' = [inv EXCEPT ![p] =
            IF Len(batch_results) = Len(i.batches)
            THEN AfterLastBatch(i, batch_results)
            ELSE [i EXCEPT !.batch_results = batch_results]]
  /\ UNCHANGED <<db, page_db, del_pc, last, ncalls>>
  /\ UNCHANGED pureVars

\* the attempt raises an Exception that is no APIError (the content fails
\* validation, or the call fails otherwise): the attempt is spent; the last
\* error is raised when no attempt is left
LlmInvalid(p) ==
  /\ inv[p].pc = "classify"
  /\ inv[p].attempt < inv[p].prompt_config.validation_retries
  /\ LET i == [inv[p] EXCEPT !.llm_calls = @ + 1, !.attempt = @ + 1]
     IN IF i.attempt >= i.prompt_config.validation_retries
        THEN /\ inv' = [inv EXCEPT ![p] = Raise(i, "validation_error")]
             /\ db' = StoreAfterBatchFailure(p)
        ELSE /\ inv' = [inv EXCEPT ![p] = i]
             /\ db' = db
  /\ UNCHANGED <<page_db, del_pc, last, ncalls>>
  /\ UNCHANGED pureVars

\* litellm.acompletion raises an APIError: re-raised at once
LlmTransportError(p) ==
  /\ inv[p].pc = "classify"
  /\ inv[p].attempt < inv[p].prompt_config.validation_retries
  /\ inv' = [inv EXCEPT ![p] =
       Raise([inv[p] EXCEPT !.llm_calls = @ + 1], "transport_error")]
  /\ db' = StoreAfterBatchFailure(p)
  /\ UNCHANGED <<page_db, del_pc, last, ncalls>>
  /\ UNCHANGED pureVars

\* Save writing the fields one by one, the run metadata only when the
\* persisted document has none
SaveMetaOnce(p) ==
  /\ inv[p].pc = "save"
  /\ db' = [inv[p].doc EXCEPT !.exists = TRUE,
                              !.meta = IF db.meta = NoMeta THEN @ ELSE db.meta]
  /\ inv' = [inv EXCEPT ![p] =
       Finish([inv[p] EXCEPT !.saves = @ + 1, !.replaced = db], "success",
              inv[p].result)]
  /\ UNCHANGED <<page_db, del_pc, last, ncalls>>
  /\ UNCHANGED pureVars

\* await doc.asave() succeeds: the loaded document, as assigned, is written
Save(p) ==
  /\ inv[p].pc = "save"
  /\ db' = [inv[p].doc EXCEPT !.exists = TRUE]
  /\ inv' = [inv EXCEPT ![p] =
       Finish([inv[p] EXCEPT !.saves = @ + 1, !.replaced = db], "success",
              inv[p].result)]
  /\ UNCHANGED <<page_db, del_pc, last, ncalls>>
  /\ UNCHANGED pureVars

\* await doc.asave() raises: nothing is written
SaveFail(p) ==
  /\ inv[p].pc = "save"
  /\ inv' = [inv EXCEPT ![p] = Raise(inv[p], "persistence_error")]
  /\ UNCHANGED <<db, page_db, del_pc, last, ncalls>>
  /\ UNCHANGED pureVars

\* the caller has the result or the exception
Return(p) ==
  /\ inv[p].pc \in {"done", "failed"}
  /\ last' = IF /\ inv[p].pc = "done"
                /\ inv[p].outcome \in {"success", "cached"}
             THEN [ok |-> ~inv[p].force,
                   reclassified |-> inv[p].outcome = "success",
                   prompt_config |-> IF inv[p].force THEN NoLast.prompt_config
                                     ELSE inv[p].prompt_config,
                   case_type |-> inv[p].case_type,
                   segments |-> inv[p].result.segments,
                   ids |-> SubDocIds(inv[p].result.subdocuments)]
             ELSE NoLast
  /\ inv' = [inv EXCEPT ![p] = IdleInv]
  /\ ncalls' = ncalls + 1
  /\ UNCHANGED <<db, page_db, del_pc>>
  /\ UNCHANGED pureVars

(***************************************************************************)
(* The other writers of the document: ingestion and delete_document.       *)
(***************************************************************************)
\* The other writers act between two invocations, and the document the next
\* invocation meets is no longer the one the previous invocation left.
Disturbed ==
  /\ \A p \in DOMAIN inv : inv[p].pc = "idle"
  /\ last' = NoLast
  /\ UNCHANGED inv

\* ingest_files on the document's path: a new Document of the same id is
\* saved.  Whether the save keeps the fields the new object leaves unset
\* (subdocuments, split_classify_meta) is the object mapper's, outside the
\* repository: both outcomes are taken.
Ingest ==
  /\ \E sha \in FileHashes, keep \in BOOLEAN :
       db' = IF keep /\ db.exists
             THEN [db EXCEPT !.file_sha = sha]
             ELSE NewDocument(sha)
  /\ db' # db
  /\ Disturbed
  /\ UNCHANGED <<page_db, del_pc, ncalls>>
  /\ UNCHANGED pureVars

\* delete_document: await DocumentPage.adelete_many(...)
DeletePages ==
  /\ del_pc = "idle"
  /\ db.exists
  /\ page_db' = {}
  /\ del_pc' = "pages_deleted"
  /\ Disturbed
  /\ UNCHANGED <<db, ncalls>>
  /\ UNCHANGED pureVars

\* delete_document: await Document.adelete_one(...)
DeleteDocument ==
  /\ del_pc = "pages_deleted"
  /\ db' = NoDoc
  /\ del_pc' = "idle"
  /\ Disturbed
  /\ UNCHANGED <<page_db, ncalls>>
  /\ UNCHANGED pureVars

(***************************************************************************)
(* DocumentParser as a context manager, as parse_document uses it:         *)
(*   async with AzureDIDocumentParser(document=document, ...) as parser:   *)
(*       document = await parser.parse()                                   *)
(* One step is the code between two awaits.  The parser task holds         *)
(* self.document, the pages of its file and whether the body has raised.   *)
(***************************************************************************)
\* the parser as constructed, before __aenter__
NewParser(document, file_pages) ==
  [pc |-> "enter", document |-> document, file_pages |-> file_pages, failed |-> FALSE]

\* __aenter__: existing = await Document.afind_one(...), the test of locked,
\* and the assignments up to await self.document.asave()
ParserFind(q) ==
  /\ par[q].pc = "enter"
  /\ LET document == IF db.exists THEN db ELSE par[q].document
     IN par' = [par EXCEPT ![q] =
          IF document.locked
          THEN [@ EXCEPT !.pc = "locked_out", !.document = document]
          ELSE [@ EXCEPT !.pc = "acquire",
                         !.document = [document EXCEPT !.exists = TRUE,
                                                       !.locked = TRUE,
                                                       !.status = "parsing"]]]
  /\ UNCHANGED <<db, page_db, del_pc, inv, last, ncalls>>
  /\ UNCHANGED <<mergeVars, batchVars, llmVars, buildVars, scoreVars>>

\* __aenter__: await self.document.asave() writes the document; return self
ParserAcquire(q) ==
  /\ par[q].pc = "acquire"
  /\ db' = par[q].document
  /\ par' = [par EXCEPT ![q].pc = "inside"]
  /\ UNCHANGED <<page_db, del_pc, inv, last, ncalls>>
  /\ UNCHANGED <<mergeVars, batchVars, llmVars, buildVars, scoreVars>>

\* parse: content and elements are set, await self.document.asave()
ParserParse(q) ==
  /\ par[q].pc = "inside"
  /\ db' = par[q].document
  /\ par' = [par EXCEPT ![q].pc = "pages"]
  /\ UNCHANGED <<page_db, del_pc, inv, last, ncalls>>
  /\ UNCHANGED <<mergeVars, batchVars, llmVars, buildVars, scoreVars>>

\* parse: _aprocess_pages saves the pages of the file; parse returns
ParserPages(q) ==
  /\ par[q].pc = "pages"
  /\ page_db' = page_db \cup par[q].file_pages
  /\ par' = [par EXCEPT ![q].pc = "leave"]
  /\ UNCHANGED <<db, del_pc, inv, last, ncalls>>
  /\ UNCHANGED <<mergeVars, batchVars, llmVars, buildVars, scoreVars>>

\* the body raises
ParserBodyRaises(q) ==
  /\ par[q].pc \in {"inside", "pages"}
  /\ par' = [par EXCEPT ![q].pc = "leave", ![q].failed = TRUE]
  /\ UNCHANGED <<db, page_db, del_pc, inv, last, ncalls>>
  /\ UNCHANGED <<mergeVars, batchVars, llmVars, buildVars, scoreVars>>

\* __aexit__: locked = False, status = FAILED if exc_type else PARSED,
\* await self.document.asave() writes the document
ParserExit(q) ==
  /\ par[q].pc = "leave"
  /\ LET document == [par[q].document EXCEPT
                        !.locked = FALSE,
                        !.status = IF par[q].failed THEN "failed" ELSE "parsed"]
     IN /\ db' = document
        /\ par' = [par EXCEPT ![q].pc = "out", ![q].document = document]
  /\ UNCHANGED <<page_db, del_pc, inv, last, ncalls>>
  /\ UNCHANGED <<mergeVars, batchVars, llmVars, buildVars, scoreVars>>

ParserNext ==
  \E q \in DOMAIN par :
    \/ ParserFind(q)
    \/ ParserAcquire(q)
    \/ ParserParse(q)
    \/ ParserPages(q)
    \/ ParserBodyRaises(q)
    \/ ParserExit(q)

Next ==
  \/ \E p \in DOMAIN inv :
       \/ Load(p)
       \/ FetchPages(p)
       \/ LlmReturn(p)
       \/ LlmInvalid(p)
       \/ LlmTransportError(p)
       \/ Save(p)
       \/ SaveFail(p)
       \/ Return(p)
  \/ Ingest
  \/ DeletePages
  \/ DeleteDocument

Spec == Init /\ [][Next]_vars

(***************************************************************************)
(* Two split_and_classify invocations at work on one ingested document.    *)
(* The bound on invocations leaves the two of them, started before either  *)
(* has returned.                                                           *)
(***************************************************************************)
TwoInit ==
  /\ \E sha \in FileHashes, n \in 1..MaxPages :
       /\ db = NewDocument(sha)
       /\ page_db = 1..n
  /\ del_pc = "idle"
  /\ inv = [p \in {1, 2} |-> IdleInv]
  /\ last = NoLast
  /\ ncalls = MaxCalls - 1
  /\ MergeOff
  /\ BatchOff
  /\ LlmOff
  /\ OtherOff

SpecTwo == TwoInit /\ [][Next]_vars

(***************************************************************************)
(* Two parser tasks at work on one ingested document that is not locked,   *)
(* parsed before (its pages are stored) or not.                            *)
(***************************************************************************)
LockInit ==
  /\ \E sha \in FileHashes, n \in 1..MaxPages :
       /\ db \in {NewDocument(sha), [NewDocument(sha) EXCEPT !.status = "parsed"]}
       /\ page_db = IF db.status = "parsed" THEN 1..n ELSE {}
       /\ par = [q \in {1, 2} |-> NewParser(db, 1..n)]
  /\ del_pc = "idle"
  /\ inv = <<>>
  /\ last = NoLast
  /\ ncalls = 0
  /\ MergeOff
  /\ BatchOff
  /\ LlmOff
  /\ BuildOff
  /\ ScoreOff

SpecLock == LockInit /\ [][ParserNext]_vars

(***************************************************************************)
(* One split_and_classify invocation and one parser task at work on one    *)
(* parsed document.  The bound on invocations leaves one invocation.       *)
(***************************************************************************)
SplitParseInit ==
  /\ \E sha \in FileHashes, n \in 1..MaxPages :
       /\ db = [NewDocument(sha) EXCEPT !.status = "parsed"]
       /\ page_db = 1..n
       /\ par = [q \in {1} |-> NewParser(db, 1..n)]
  /\ del_pc = "idle"
  /\ inv = [p \in {1} |-> IdleInv]
  /\ last = NoLast
  /\ ncalls = MaxCalls - 1
  /\ MergeOff
  /\ BatchOff
  /\ LlmOff
  /\ BuildOff
  /\ ScoreOff

SplitParseNext == Next \/ ParserNext

SpecSplitParse == SplitParseInit /\ [][SplitParseNext]_vars

(***************************************************************************)
(* Properties of split_and_classify, under Spec.                           *)
(***************************************************************************)
Returned(i) == i.pc \in {"done", "failed"}

\* the segments and sub-documents this invocation made of its own batch results
OwnSegments(i) == CombineOverlappingResults(i.batch_results, i.batches)
OwnSubdocuments(i) == BuildSubdocuments(i.case_type, OwnSegments(i), i.pages)

\* every batch was classified, by at least one classifier call each
EveryBatchClassified(i) ==
  /\ Len(i.batches) >= 1
  /\ Len(i.batch_results) = Len(i.batches)
  /\ i.llm_calls >= Len(i.batches)

\* the loaded document gives no cache hit: no sub-documents, or no run
\* metadata, or a stored file hash, config hash or case_type that differs
Stale(i) ==
  \/ i.loaded.subdocuments = <<>>
  \/ i.loaded.meta = NoMeta
  \/ i.loaded.meta.file_sha256 # i.loaded.file_sha
  \/ i.loaded.meta.config_hash # ConfigHash(i.prompt_config)
  \/ i.loaded.meta.case_type # i.case_type

\* C1 (the claim as stated): a force=False call that follows a successful
\* force=False call with the same config and case_type on the untouched
\* document makes no classifier call and returns the same segments,
\* whatever the classifier returned during the first call.
C1_Idempotent ==
  \A p \in Procs :
    (/\ Returned(inv[p])
     /\ ~inv[p].force
     /\ last.ok
     /\ last.prompt_config = inv[p].prompt_config
     /\ last.case_type = inv[p].case_type)
    => /\ inv[p].llm_calls = 0
       /\ inv[p].pc = "done"
       /\ inv[p].result.segments = last.segments

\* C2: when a batch or the save raises, the invocation has raised with only
\* the batches before the failing one classified, it has saved nothing, and
\* the persisted document is the one it loaded.
C2_FailureAtomic ==
  \A p \in Procs :
    inv[p].pc = "failed" =>
      /\ inv[p].outcome \in {"transport_error", "validation_error", "persistence_error"}
      /\ inv[p].saves = 0
      /\ db = inv[p].loaded
      /\ inv[p].outcome # "persistence_error" =>
           /\ Len(inv[p].batch_results) < Len(inv[p].batches)
           /\ inv[p].llm_calls <=
                (Len(inv[p].batch_results) + 1) * inv[p].prompt_config.validation_retries

\* validation retries run out on a later batch of a document that has
\* sub-documents of an earlier run
C2_Witness ==
  \E p \in Procs :
    /\ inv[p].pc = "failed"
    /\ inv[p].outcome = "validation_error"
    /\ inv[p].batch_results # <<>>
    /\ inv[p].batch_results[1] # <<>>
    /\ inv[p].loaded.subdocuments # <<>>

\* C3: after a successful reclassification the persisted document holds
\* exactly the sub-documents built in this invocation and the run metadata
\* of this invocation; nothing was written before every batch was
\* classified, and one save wrote both.
C3_SuccessOverwrites ==
  \A p \in Procs :
    /\ (inv[p].pc = "done" /\ inv[p].outcome = "success") =>
         /\ db.subdocuments = OwnSubdocuments(inv[p])
         /\ db.subdocuments = inv[p].result.subdocuments
         /\ db.meta = SplitClassifyMeta(inv[p].loaded.file_sha,
                                        ConfigHash(inv[p].prompt_config),
                                        inv[p].case_type)
         /\ inv[p].saves = 1
         /\ Len(inv[p].batch_results) = Len(inv[p].batches)
    /\ inv[p].pc \in {"fetch", "classify", "save"} =>
         /\ inv[p].saves = 0
         /\ db = inv[p].loaded

\* a successful run on a document that had other sub-documents
C3_Witness ==
  \E p \in Procs :
    /\ inv[p].pc = "done"
    /\ inv[p].outcome = "success"
    /\ inv[p].loaded.subdocuments # <<>>
    /\ db.subdocuments # <<>>
    /\ \A k \in DOMAIN inv[p].loaded.subdocuments :
         \A j \in DOMAIN db.subdocuments :
           inv[p].loaded.subdocuments[k] # db.subdocuments[j]
    /\ db.meta # inv[p].loaded.meta

\* C4: with force=False, a document that exists, has a page and is stale is
\* reclassified: the call is not served from the cache, and when it returns
\* every batch was classified and its result is built from those batch
\* results.
C4_CacheMiss ==
  \A p \in Procs :
    (/\ inv[p].pc # "idle"
     /\ ~inv[p].force
     /\ inv[p].loaded.exists
     /\ Stale(inv[p]))
    => /\ inv[p].outcome # "cached"
       /\ (inv[p].pc = "done" /\ page_db # {}) =>
            /\ inv[p].outcome = "success"
            /\ EveryBatchClassified(inv[p])
            /\ inv[p].result.segments = OwnSegments(inv[p])
            /\ inv[p].result.subdocuments = OwnSubdocuments(inv[p])

\* sub-documents and run metadata are there, only the stored file hash differs
C4_Witness ==
  \E p \in Procs :
    /\ inv[p].pc = "done"
    /\ inv[p].outcome = "success"
    /\ ~inv[p].force
    /\ inv[p].loaded.subdocuments # <<>>
    /\ inv[p].loaded.meta # NoMeta
    /\ inv[p].loaded.meta.file_sha256 # inv[p].loaded.file_sha
    /\ inv[p].loaded.meta.config_hash = ConfigHash(inv[p].prompt_config)
    /\ inv[p].loaded.meta.case_type = inv[p].case_type

\* C5: force=True reclassifies a document that exists and has a page, also
\* when everything stored matches: every batch is classified and the result
\* is persisted.
C5_ForceReclassifies ==
  \A p \in Procs :
    (/\ inv[p].pc # "idle"
     /\ inv[p].force
     /\ inv[p].loaded.exists)
    => /\ inv[p].outcome # "cached"
       /\ (inv[p].pc = "done" /\ page_db # {}) =>
            /\ inv[p].outcome = "success"
            /\ EveryBatchClassified(inv[p])
            /\ inv[p].saves = 1
            /\ inv[p].result.segments = OwnSegments(inv[p])
            /\ db.subdocuments = inv[p].result.subdocuments

\* a forced run on a document whose stored hashes and case_type all match
C5_Witness ==
  \E p \in Procs :
    /\ inv[p].pc = "done"
    /\ inv[p].outcome = "success"
    /\ inv[p].force
    /\ inv[p].loaded.subdocuments # <<>>
    /\ ~Stale(inv[p])

\* returns empty, without raising, with no classifier call and no write
NothingDone(i) ==
  /\ i.pc = "done"
  /\ i.result = EmptyResult
  /\ i.llm_calls = 0
  /\ i.saves = 0
  /\ db = i.loaded

\* C6 (the claim as stated): when the document does not exist, or exists but
\* has no pages, the call returns an empty result without raising, makes no
\* classifier call and writes nothing.
C6_NotFoundOriginal ==
  \A p \in Procs :
    (Returned(inv[p]) /\ (~inv[p].loaded.exists \/ page_db = {}))
    => NothingDone(inv[p])

\* C6 (amended): the same, for a document without pages only when the call
\* is not served from the cache (force=True, or the document is stale).
C6_NotFound ==
  \A p \in Procs :
    (/\ Returned(inv[p])
     /\ \/ ~inv[p].loaded.exists
        \/ page_db = {} /\ (inv[p].force \/ Stale(inv[p])))
    => NothingDone(inv[p])

\* a document with sub-documents of an earlier run has lost its pages
C6_Witness ==
  \E p \in Procs :
    /\ inv[p].pc = "done"
    /\ inv[p].outcome = "no_pages"
    /\ inv[p].loaded.exists
    /\ inv[p].loaded.subdocuments # <<>>

(***************************************************************************)
(* Properties of combine_overlapping_results, under SpecMerge.             *)
(***************************************************************************)
\* the places <<i, j>> of the pages of the returned segments
OutPlaces ==
  UNION {{<<i, j>> : j \in DOMAIN m_out[i].page_numbers} : i \in DOMAIN m_out}

Consecutive(page_numbers) ==
  \A j \in 1..(Len(page_numbers) - 1) : page_numbers[j + 1] = page_numbers[j] + 1

\* C7: every tagged page is in exactly one returned segment, exactly once,
\* no other page is returned, every returned page list is strictly
\* ascending, and the segments come by ascending first page.
C7_Partition ==
  m_pc = "merged" =>
    LET tagged == TaggedPages(m_results, m_batches)
    IN /\ \A p \in tagged :
            Cardinality({ij \in OutPlaces : m_out[ij[1]].page_numbers[ij[2]] = p}) = 1
       /\ \A ij \in OutPlaces : m_out[ij[1]].page_numbers[ij[2]] \in tagged
       /\ \A i \in DOMAIN m_out :
            /\ m_out[i].page_numbers # <<>>
            /\ \A j \in 1..(Len(m_out[i].page_numbers) - 1) :
                 m_out[i].page_numbers[j] < m_out[i].page_numbers[j + 1]
       /\ \A i \in 1..(Len(m_out) - 1) :
            m_out[i].page_numbers[1] < m_out[i + 1].page_numbers[1]

\* two batches tag one page, and the merge returns several segments
C7_Witness ==
  /\ m_pc = "merged"
  /\ Len(m_out) >= 2
  /\ \E p \in TaggedPages(m_results, m_batches) :
       LET tags == PageTagsOf(p, m_results, m_batches)
       IN \E i, j \in DOMAIN tags : tags[i].tag.batch_idx # tags[j].tag.batch_idx

\* C8 (the claim as stated): every returned segment is a range of
\* consecutive page numbers, whatever the classifier answered.
C8_Contiguous ==
  m_pc = "merged" => \A i \in DOMAIN m_out : Consecutive(m_out[i].page_numbers)

\* one batch, whose segments are non-empty runs of consecutive pages of the
\* window, pairwise disjoint and listed by ascending page
SingleBatchClean ==
  /\ Len(m_batches) = 1
  /\ Len(m_results) = 1
  /\ \A s \in DOMAIN m_results[1] :
       LET pn == m_results[1][s].page_numbers
       IN /\ pn # <<>>
          /\ Range(pn) \subseteq Range(m_batches[1])
          /\ Consecutive(pn)
  /\ \A s \in 1..(Len(m_results[1]) - 1) :
       LET pn == m_results[1][s].page_numbers
       IN pn[Len(pn)] < m_results[1][s + 1].page_numbers[1]

\* C9: such a single batch result is returned as it is: same segments, same
\* page lists, same count and order; adjacent segments of one type stay apart.
C9_SingleBatchPassThrough ==
  (m_pc = "merged" /\ SingleBatchClean) => m_out = m_results[1]

\* two adjacent segments of the same type in one batch
C9_Witness ==
  /\ m_pc = "merged"
  /\ SingleBatchClean
  /\ \E s \in 1..(Len(m_results[1]) - 1) :
       /\ m_results[1][s].document_type = m_results[1][s + 1].document_type
       /\ LET pn == m_results[1][s].page_numbers
          IN m_results[1][s + 1].page_numbers[1] = pn[Len(pn)] + 1
  /\ Len(m_out) >= 2

\* consecutive windows share a page, and every batch result is one segment
\* of type t holding exactly the window
Spanning(t) ==
  /\ Len(m_batches) >= 1
  /\ Len(m_results) = Len(m_batches)
  /\ \A b \in 1..(Len(m_batches) - 1) :
       Range(m_batches[b]) \cap Range(m_batches[b + 1]) # {}
  /\ \A b \in DOMAIN m_batches : m_results[b] = <<SplitSegment(t, m_batches[b])>>

\* C10: a document spanning overlapping windows is rejoined into one segment
\* of its type holding every page of every window, ascending.
C10_Rejoin ==
  \A t \in DocTypes :
    (m_pc = "merged" /\ Spanning(t)) =>
      m_out = <<SplitSegment(t,
                  SetToSortedSeq(UNION {Range(m_batches[b]) : b \in DOMAIN m_batches}))>>

\* the document spans at least two windows
C10_Witness ==
  /\ m_pc = "merged"
  /\ Len(m_batches) >= 2
  /\ \E t \in DocTypes : Spanning(t)
  /\ Len(m_out) = 1

\* C11 (the claim as stated): no returned segment holds two pages whose
\* selected tags are two different segments of one batch.
C11_NoMergeWithinBatch ==
  m_pc = "merged" =>
    \A i \in DOMAIN m_out : \A p, q \in Range(m_out[i].page_numbers) :
      LET tp == SelectedTag(p, m_results, m_batches)
          tq == SelectedTag(q, m_results, m_batches)
      IN tp.batch_idx = tq.batch_idx => tp.segment_idx = tq.segment_idx

\* the page numbers of all windows
WindowPages == UNION {Range(m_batches[b]) : b \in DOMAIN m_batches}

\* C12: the merge never raises; a page reference outside the window of its
\* own batch adds no tag of that batch, also when another window holds the
\* page; no returned page is outside every window; and with no page tagged
\* the result is the empty list.
C12_MalformedDiscarded ==
  m_pc # "input" =>
    /\ m_pc = "merged"
    /\ \A b \in DOMAIN m_results :
         \A p \in ReferencedPages(m_results, m_batches) \ Range(m_batches[b]) :
           LET tags == PageTagsOf(p, m_results, m_batches)
           IN \A k \in DOMAIN tags : tags[k].tag.batch_idx # b - 1
    /\ \A i \in DOMAIN m_out : Range(m_out[i].page_numbers) \subseteq WindowPages
    /\ (TaggedPages(m_results, m_batches) = {} => m_out = <<>>)

\* a batch names a page outside its window that another window holds, next
\* to pages of its own window, and the merge returns segments
C12_Witness ==
  /\ m_pc = "merged"
  /\ m_out # <<>>
  /\ \E b \in DOMAIN m_results :
       \E s \in DOMAIN m_results[b] :
         \E p \in Range(m_results[b][s].page_numbers) :
           /\ p \notin Range(m_batches[b])
           /\ p \in WindowPages
           /\ Range(m_results[b][s].page_numbers) \cap Range(m_batches[b]) # {}

(***************************************************************************)
(* Properties of batch_pages_with_overlap, under SpecBatch.                *)
(***************************************************************************)
\* batch is the slice of pages that starts at offset a (0-based)
SliceAt(batch, pages, a) ==
  /\ a + Len(batch) <= Len(pages)
  /\ \A j \in DOMAIN batch : batch[j] = pages[a + j]

\* C13: every input page is in at least one returned batch; every batch is
\* a non-empty slice of consecutive input pages in input order; no batch has
\* more than batch_size pages.
C13_Coverage ==
  b_pc = "done" =>
    /\ \A i \in DOMAIN b_pages :
         \E k \in DOMAIN b_batches : b_pages[i] \in Range(b_batches[k])
    /\ \A k \in DOMAIN b_batches :
         /\ b_batches[k] # <<>>
         /\ Len(b_batches[k]) <= b_batch_size
         /\ \E a \in 0..(Len(b_pages) - 1) : SliceAt(b_batches[k], b_pages, a)

\* several batches that overlap, the last one shorter than batch_size
C13_Witness ==
  /\ b_pc = "done"
  /\ Len(b_batches) >= 2
  /\ b_overlap_factor >= 1
  /\ Range(b_batches[1]) \cap Range(b_batches[2]) # {}
  /\ Len(b_batches[Len(b_batches)]) < b_batch_size

\* the layout of the returned batches: batch k (from 0) is
\* pages[k * step : k * step + batch_size]; the last batch, and no earlier
\* one, has its end offset at or past the page count, so it holds the last
\* page; no pages give no batch; batch_size >= page count gives one batch
\* with all pages
BatchLayout ==
  LET step == Max(1, b_batch_size - b_overlap_factor)
      n == Len(b_pages)
  IN /\ \A k \in DOMAIN b_batches :
          /\ b_batches[k] =
               SubSeq(b_pages, (k - 1) * step + 1, Min((k - 1) * step + b_batch_size, n))
          /\ ((k - 1) * step + b_batch_size >= n) <=> (k = Len(b_batches))
     /\ (n = 0) <=> (b_batches = <<>>)
     /\ n >= 1 => b_pages[n] \in Range(b_batches[Len(b_batches)])
     /\ (n >= 1 /\ b_batch_size >= n) => b_batches = <<b_pages>>

\* C14: every call returns, and what it returns has the layout above.
C14_Layout == [](b_pc = "done" => BatchLayout) /\ <>(b_pc = "done")

\* an overlap_factor that is no smaller than batch_size: the step is 1
C14_Witness ==
  /\ b_pc = "done"
  /\ b_overlap_factor >= b_batch_size
  /\ b_batch_size >= 2
  /\ Len(b_batches) >= 3

(***************************************************************************)
(* Properties of run_llm_split_classify, under SpecLlm.                    *)
(***************************************************************************)
\* C15: at most validation_retries classifier calls; a response that
\* validates is the last call and is returned; when validation_retries
\* attempts were made and every one failed validation, the call has raised
\* the validation error of the last attempt.
C15_ValidationRetry ==
  /\ Len(r_history) <= r_retries
  /\ \A k \in DOMAIN r_history :
       r_history[k] = "valid" => (k = Len(r_history) /\ r_pc = "returned")
  /\ r_pc = "returned" => (r_history # <<>> /\ r_history[Len(r_history)] = "valid")
  /\ (/\ r_retries >= 1
      /\ Len(r_history) = r_retries
      /\ \A k \in DOMAIN r_history : r_history[k] = "validation")
     => (r_pc = "raised" /\ r_raised = Error("validation", r_retries))

\* several attempts, every one failed validation
C15_Witness ==
  /\ r_pc = "raised"
  /\ r_retries >= 2
  /\ Len(r_history) = r_retries
  /\ \A k \in DOMAIN r_history : r_history[k] = "validation"

\* C16 (the claim as stated): a transport-level error of a classifier call,
\* of whatever kind, is the last call of run_llm_split_classify, which has
\* raised that error.
C16_TransportNotRetried ==
  \A k \in DOMAIN r_history :
    r_history[k] \in {"api_error", "timeout"} =>
      /\ k = Len(r_history)
      /\ r_pc = "raised"
      /\ r_raised = Error(r_history[k], k)

(***************************************************************************)
(* Further properties of split_and_classify, under Spec.                   *)
(***************************************************************************)
\* a successful reclassification that follows a successful reclassification
\* of the same, untouched document with the same case_type, and in which the
\* batch results merge to the segments of the previous run (as they do when
\* the classifier returns the same results for the same batches)
Rerun(p) ==
  /\ inv[p].pc = "done"
  /\ inv[p].outcome = "success"
  /\ last.reclassified
  /\ last.case_type = inv[p].case_type
  /\ OwnSegments(inv[p]) = last.segments

\* C17: such a run returns and persists the ids of the previous run, in the
\* same order; an id is made of the case_type, the document_type and the
\* smallest page number of the sub-document; the persisted list holds no id
\* twice.
C17_StableIds ==
  \A p \in Procs :
    Rerun(p) =>
      /\ SubDocIds(inv[p].result.subdocuments) = last.ids
      /\ db.subdocuments = inv[p].result.subdocuments
      /\ \A k \in DOMAIN db.subdocuments :
           LET sd == db.subdocuments[k]
           IN sd.id = <<"doc", inv[p].case_type, sd.document_type,
                        MinOf({sd.page_refs[j].page_number : j \in DOMAIN sd.page_refs})>>
      /\ \A j, k \in DOMAIN db.subdocuments :
           db.subdocuments[j].id = db.subdocuments[k].id => j = k

\* both runs made two sub-documents of one document type
C17_Witness ==
  \E p \in Procs :
    /\ Rerun(p)
    /\ Len(last.ids) >= 2
    /\ db.subdocuments[1].document_type = db.subdocuments[2].document_type

\* what the caller reads off a finished call, given only that it raised or
\* the value it returned
Tell(i) ==
  IF i.pc = "failed" THEN "classification_failed"
  ELSE IF i.result.subdocuments = <<>> /\ i.result.segments = <<>> THEN "nothing_to_do"
  ELSE "up_to_date"

\* C18: a missing document or missing pages return the empty result, a
\* cache hit returns sub-documents (and made no classifier call), a failed
\* classification raises: the three are told apart by Tell.
C18_OutcomesToldApart ==
  \A p \in Procs :
    Returned(inv[p]) =>
      /\ inv[p].outcome \in {"not_found", "no_pages"} => Tell(inv[p]) = "nothing_to_do"
      /\ inv[p].outcome = "cached" =>
           (Tell(inv[p]) = "up_to_date" /\ inv[p].llm_calls = 0)
      /\ inv[p].outcome \in {"transport_error", "validation_error"} =>
           Tell(inv[p]) = "classification_failed"

\* a cache hit on a document whose pages are gone
C18_Witness ==
  \E p \in Procs :
    /\ inv[p].pc = "done"
    /\ inv[p].outcome = "cached"
    /\ page_db = {}

(***************************************************************************)
(* Further properties of combine_overlapping_results, under SpecMerge.     *)
(***************************************************************************)
\* the (document_type, batch_idx, segment_idx) triples recorded for a page,
\* selected or not
TagTriples(page_num) ==
  LET tags == PageTagsOf(page_num, m_results, m_batches)
  IN {tags[k].tag : k \in DOMAIN tags}

\* the returned segment that holds a page
FinalOf(page_num) ==
  CHOOSE i \in DOMAIN m_out : page_num \in Range(m_out[i].page_numbers)

\* C19: two neighbouring raw segments are in one returned segment if and
\* only if they have the same document_type and the last page of the first
\* and the first page of the second have a recorded tag triple in common;
\* the pages of a raw segment stay together, under its document_type; and
\* the responses A = receipt[1,2,3], receipt[4,5] over 1..5 and
\* B = receipt[4,5], invoice[6,7,8] over 4..8 give receipt[1,2,3],
\* receipt[4,5], invoice[6,7,8].
C19_StitchRule ==
  (m_pc = "merged" /\ m_out # <<>>) =>
    LET raw == RawSegments(m_results, m_batches)
    IN /\ \A k \in DOMAIN raw :
            /\ \A pg \in Range(raw[k].pages) : FinalOf(pg) = FinalOf(raw[k].pages[1])
            /\ m_out[FinalOf(raw[k].pages[1])].document_type = raw[k].tag.document_type
       /\ \A k \in 1..(Len(raw) - 1) :
            LET boundary_page == raw[k].pages[Len(raw[k].pages)]
                next_page == raw[k + 1].pages[1]
            IN (FinalOf(boundary_page) = FinalOf(next_page)) <=>
                 /\ raw[k].tag.document_type = raw[k + 1].tag.document_type
                 /\ TagTriples(boundary_page) \cap TagTriples(next_page) # {}
       /\ (m_batches = ExampleBatches /\ m_results = ExampleResults) =>
            m_out = <<SplitSegment("receipt", <<1, 2, 3>>),
                      SplitSegment("receipt", <<4, 5>>),
                      SplitSegment("invoice", <<6, 7, 8>>)>>

\* the two responses A and B have been merged: the receipts of the boundary
\* are stitched, the earlier receipt stays apart
C19_Witness ==
  /\ m_pc = "merged"
  /\ m_batches = ExampleBatches
  /\ m_results = ExampleResults
  /\ Len(m_out) = 3

\* the entries of maximal score among the tags recorded for a page
MaxScored(tags) ==
  {k \in DOMAIN tags : \A j \in DOMAIN tags : ~ScoreGT(tags[j].score, tags[k].score)}

\* C20: the selected tag of a tagged page is one of its recorded tags of
\* maximal score, among those the one of the lowest batch_idx and, in that
\* batch, of the lowest segment_idx; the returned segment that holds the
\* page has the selected tag's document_type.
C20_Selection ==
  m_pc = "merged" =>
    \A pg \in TaggedPages(m_results, m_batches) :
      LET tags == PageTagsOf(pg, m_results, m_batches)
          sel == SelectedTag(pg, m_results, m_batches)
      IN /\ \E k \in MaxScored(tags) : tags[k].tag = sel
         /\ \A k \in MaxScored(tags) :
              \/ sel.batch_idx < tags[k].tag.batch_idx
              \/ /\ sel.batch_idx = tags[k].tag.batch_idx
                 /\ sel.segment_idx <= tags[k].tag.segment_idx
         /\ m_out[FinalOf(pg)].document_type = sel.document_type

\* two batches tag one page with the same score and different document
\* types, and another page has its best score in the later batch
C20_Witness ==
  /\ m_pc = "merged"
  /\ \E pg \in TaggedPages(m_results, m_batches) :
       LET tags == PageTagsOf(pg, m_results, m_batches)
       IN \E j, k \in MaxScored(tags) :
            /\ tags[j].tag.batch_idx # tags[k].tag.batch_idx
            /\ tags[j].tag.document_type # tags[k].tag.document_type
  /\ \E pg \in TaggedPages(m_results, m_batches) :
       LET tags == PageTagsOf(pg, m_results, m_batches)
       IN /\ Len(tags) >= 2
          /\ SelectedTag(pg, m_results, m_batches).batch_idx > tags[1].tag.batch_idx


(***************************************************************************)
(* The classify loop of split_and_classify, under Spec.                    *)
(***************************************************************************)
\* C21: in RECLASSIFY the batches are classified one call at a time in
\* ascending batch_index order, each batch once apart from validation
\* retries: the k-th result was obtained for batches[k] with batch_num = k
\* (batch_index + 1) and total_batches = the number of batches, and the
\* merge is made of the results in that order.
C21_BatchOrder ==
  \A p \in DOMAIN inv :
    LET i == inv[p]
    IN /\ Len(i.told) = Len(i.batch_results)
       /\ Len(i.batch_results) <= Len(i.batches)
       /\ i.llm_calls >= Len(i.batch_results)
       /\ \A k \in DOMAIN i.told :
            /\ i.told[k].batch_num = k
            /\ i.told[k].total_batches = Len(i.batches)
            /\ i.told[k].batch = i.batches[k]
            /\ i.batch_results[k] \in ClassifierResults(i.batches[k])
       /\ (i.pc = "save" \/ i.outcome \in {"success", "persistence_error"}) =>
            /\ Len(i.batch_results) = Len(i.batches)
            /\ i.result.segments = CombineOverlappingResults(i.batch_results, i.batches)

\* a run of two batches, one of them retried, has succeeded
C21_Witness ==
  \E p \in DOMAIN inv :
    /\ inv[p].outcome = "success"
    /\ Len(inv[p].batches) = 2
    /\ Len(inv[p].told) = 2
    /\ inv[p].llm_calls > 2


(***************************************************************************)
(* Properties of _build_subdocuments, under SpecBuild.                     *)
(***************************************************************************)
Resolves(pn) == pn \in Range(sd_pages)

\* the segments with at least one page number that resolves to a page
ResolvedSegments ==
  SelectSeq(sd_segments,
            LAMBDA segment : \E j \in DOMAIN segment.page_numbers :
                               Resolves(segment.page_numbers[j]))

\* C22: _build_subdocuments maps the segments to sub-documents in order: a
\* page number that resolves to no page is left out of page_refs, a segment
\* none of whose page numbers resolves gives no sub-document, every other
\* segment gives exactly one sub-document with the segment's document_type,
\* the given case_type and the resolved pages in the segment's page order,
\* and the sub-documents keep the order of their segments.
C22_BuildInOrder ==
  sd_pc = "built" =>
    /\ Len(sd_out) = Len(ResolvedSegments)
    /\ \A k \in DOMAIN sd_out :
         LET segment == ResolvedSegments[k]
             page_refs == sd_out[k].page_refs
         IN /\ sd_out[k].document_type = segment.document_type
            /\ sd_out[k].case_type = sd_case_type
            /\ [j \in DOMAIN page_refs |-> page_refs[j].page_number]
                 = SelectSeq(segment.page_numbers, Resolves)
            /\ \A j \in DOMAIN page_refs :
                 page_refs[j].page_id = PageId(page_refs[j].page_number)

\* two segments: the first names pages but none that exists and is dropped,
\* the second names two pages of which one exists
C22_Witness ==
  /\ sd_pc = "built"
  /\ Len(sd_segments) = 2
  /\ sd_segments[1].page_numbers # <<>>
  /\ Len(sd_segments[2].page_numbers) = 2
  /\ Len(sd_out) = 1
  /\ Len(sd_out[1].page_refs) = 1
  /\ sd_out[1].page_refs[1].page_number = sd_segments[2].page_numbers[2]


(***************************************************************************)
(* Properties of _centrality_score, under SpecScore.                       *)
(***************************************************************************)
\* twice the distance |idx - mid| of a page of the window from its centre
OffCentre(page_num, batch_pages) ==
  Abs(2 * (IndexOf(batch_pages, page_num) - 1) - (Len(batch_pages) - 1))

\* C23: the centrality score of a page at zero-based position idx of a
\* window of w pages is 1.0 when w = 1 and 1 - |idx - mid| / mid with
\* mid = (w - 1) / 2 otherwise; it lies in [0, 1], is 0 at both edges of the
\* window, 1.0 at the centre of an odd window, and of two pages of a window
\* the one nearer the centre scores strictly higher.
C23_Centrality ==
  cs_pc = "returned" =>
    LET w == Len(cs_batch_pages)
        idx == IndexOf(cs_batch_pages, cs_page_num) - 1
    IN IF w <= 1 THEN cs_score = <<1, 1>>
       ELSE /\ cs_score[2] > 0
            /\ cs_score[1] * (w - 1) = cs_score[2] * ((w - 1) - Abs(2 * idx - (w - 1)))
            /\ 0 <= cs_score[1]
            /\ cs_score[1] <= cs_score[2]
            /\ idx \in {0, w - 1} => cs_score[1] = 0
            /\ 2 * idx = w - 1 => cs_score[1] = cs_score[2]
            /\ \A q \in Range(cs_batch_pages) :
                 OffCentre(q, cs_batch_pages) < OffCentre(cs_page_num, cs_batch_pages)
                   => ScoreGT(CentralityScore(q, cs_batch_pages), cs_score)

\* the second page of a window of five pages: score 1/2, below the centre's
C23_Witness ==
  /\ cs_pc = "returned"
  /\ Len(cs_batch_pages) = 5
  /\ cs_page_num = cs_batch_pages[2]
  /\ 2 * cs_score[1] = cs_score[2]
  /\ ScoreGT(CentralityScore(cs_batch_pages[3], cs_batch_pages), cs_score)


(***************************************************************************)
(* The overlap of consecutive batches, under SpecBatch.                    *)
(***************************************************************************)
\* batches k and k+1 have exactly n pages in common: the last n pages of
\* batch k, which are the first n pages of batch k+1
SharePages(k, n) ==
  LET this == b_batches[k]
      next == b_batches[k + 1]
  IN /\ Cardinality(Range(this) \cap Range(next)) = n
     /\ SubSeq(this, Len(this) - n + 1, Len(this)) = SubSeq(next, 1, n)

C26_ConfiguredBatching ==
  b_pc = "done" =>
    /\ (b_prompt_config.batch_size >= 1 /\ b_prompt_config.overlap_factor # None) =>
         b_batches = BatchPagesWithOverlap(b_pages, b_prompt_config.batch_size,
                                           b_prompt_config.overlap_factor)
    /\ (b_prompt_config.batch_size >= 1 /\ b_prompt_config.overlap_factor = 0) =>
         \A k \in 1..(Len(b_batches) - 1) :
           Range(b_batches[k]) \cap Range(b_batches[k + 1]) = {}


\* C27: whenever two neighbouring raw segments are merged into one returned
\* segment, the last page of the first and the first page of the second have
\* a recorded tag triple in common whose document_type is the document_type
\* of the two segments: they are never joined on the evidence of a batch
\* segment that classified both boundary pages as another document_type only.
C27_EvidenceOfOwnType ==
  (m_pc = "merged" /\ m_out # <<>>) =>
    LET raw == RawSegments(m_results, m_batches)
    IN \A k \in 1..(Len(raw) - 1) :
         LET boundary_page == raw[k].pages[Len(raw[k].pages)]
             next_page == raw[k + 1].pages[1]
         IN (FinalOf(boundary_page) = FinalOf(next_page)) =>
              \E t \in TagTriples(boundary_page) \cap TagTriples(next_page) :
                t.document_type = raw[k].tag.document_type


(***************************************************************************)
(* The cached path of split_and_classify, under Spec.                      *)
(***************************************************************************)
\* C28: a call answered from the cache saves nothing, fetches no pages and
\* calls no classifier; the persisted document is as it was loaded; the
\* result holds the persisted sub-documents themselves and one segment per
\* sub-document, in the same order, with the sub-document's document_type
\* and the page numbers of its page_refs in ascending order.
C28_CachedReadOnly ==
  \A p \in DOMAIN inv :
    (inv[p].pc = "done" /\ inv[p].outcome = "cached") =>
      LET subdocuments == inv[p].loaded.subdocuments
          segments == inv[p].result.segments
      IN /\ inv[p].saves = 0
         /\ inv[p].fetches = 0
         /\ inv[p].llm_calls = 0
         /\ db = inv[p].loaded
         /\ inv[p].result.subdocuments = subdocuments
         /\ Len(segments) = Len(subdocuments)
         /\ \A k \in DOMAIN segments :
              LET page_refs == subdocuments[k].page_refs
                  page_numbers == segments[k].page_numbers
              IN /\ segments[k].document_type = subdocuments[k].document_type
                 /\ Len(page_numbers) = Len(page_refs)
                 /\ Range(page_numbers) =
                      {page_refs[j].page_number : j \in DOMAIN page_refs}
                 /\ \A j \in 1..(Len(page_numbers) - 1) :
                      page_numbers[j] < page_numbers[j + 1]

\* a call is answered from the cache with two persisted sub-documents
C28_Witness ==
  \E p \in DOMAIN inv :
    /\ inv[p].pc = "done"
    /\ inv[p].outcome = "cached"
    /\ Len(inv[p].result.subdocuments) = 2
    /\ Len(inv[p].result.segments) = 2


(***************************************************************************)
(* Two concurrent invocations on one document, under SpecTwo.              *)
(***************************************************************************)
\* the persisted sub-documents and run metadata are the ones invocation p
\* made: of its own batch results, under its own config and case_type
PersistedBy(p) ==
  /\ db.subdocuments = OwnSubdocuments(inv[p])
  /\ db.subdocuments = inv[p].result.subdocuments
  /\ db.meta = SplitClassifyMeta(FileSha256(inv[p].loaded),
                                 ConfigHash(inv[p].prompt_config), inv[p].case_type)

\* C25: for every interleaving of two invocations on one document, once
\* both have finished successfully the persisted sub-documents and the
\* persisted run metadata come from one single invocation, so the
\* sub-documents a later cache hit returns were produced under the config
\* and case_type the metadata names.
C25_PairFromOneInvocation ==
  (\A p \in DOMAIN inv : inv[p].pc = "done" /\ inv[p].outcome = "success") =>
    /\ \E p \in DOMAIN inv : PersistedBy(p)
    /\ \A k \in DOMAIN db.subdocuments :
         db.subdocuments[k].case_type = db.meta.case_type

\* both invocations loaded the document before either saved, ran under
\* different case types and configs, and both have saved
C25_Witness ==
  /\ DOMAIN inv = {1, 2}
  /\ \A p \in DOMAIN inv : inv[p].pc = "done" /\ inv[p].outcome = "success"
  /\ inv[1].loaded.meta = NoMeta
  /\ inv[2].loaded.meta = NoMeta
  /\ inv[1].case_type # inv[2].case_type
  /\ inv[1].prompt_config # inv[2].prompt_config
  /\ inv[1].result.subdocuments # inv[2].result.subdocuments
  /\ PersistedBy(1)


(***************************************************************************)
(* An invocation beside a parser task, under SpecSplitParse.               *)
(***************************************************************************)
\* C29: the save of split_and_classify changes only the sub-documents and
\* the run metadata of the persisted document: locked, status and the file
\* hash are after the save what they were in the store just before it,
\* whatever another task wrote between the load and the save.
C29_OnlyOwnFields ==
  \A p \in DOMAIN inv :
    (inv[p].pc = "done" /\ inv[p].outcome = "success" /\ inv[p].replaced.exists) =>
      /\ inv[p].doc.locked = inv[p].replaced.locked
      /\ inv[p].doc.status = inv[p].replaced.status
      /\ inv[p].doc.file_sha = inv[p].replaced.file_sha


(***************************************************************************)
(* Two parser tasks on one document, under SpecLock.                       *)
(***************************************************************************)
\* __aenter__ has returned and __aexit__ has not yet released the lock
InLockedSection(q) == par[q].pc \in {"inside", "pages", "leave"}

\* C30: the processing lock is mutually exclusive: two parser tasks are
\* never both inside the locked section of one document; of two entries at
\* most one completes __aenter__ while the lock is held.
C30_MutualExclusion ==
  \A q1, q2 \in DOMAIN par :
    (q1 # q2) => ~(InLockedSection(q1) /\ InLockedSection(q2))

====
